---- MODULE Spec2Model ----
(***************************************************************************)
(* Model of burn-core/src/nn/initializer.rs: the Initializer enum, its     *)
(* entry points init / init_with, the fan statistics kaiming_std and       *)
(* xavier_std, and the two draw helpers.                                    *)
(*                                                                         *)
(* f64 values that the code computes are signed square roots of rationals  *)
(* (sqrt(3.0), gain, 1/sqrt(fan), sqrt(2/(fan_in+fan_out)) and products of *)
(* those), so an f64 is the record [sgn, num, den] standing for            *)
(* sgn * sqrt(num/den) in lowest terms, with den = 0 for the infinities    *)
(* and num = den = 0 for NaN.  Rounding is not modelled.                   *)
(* usize is an unsigned integer of WordBits bits.                          *)
(***************************************************************************)
EXTENDS Integers, Sequences, FiniteSets, TLC

\* ---------------------------------------------------------------- bounds
WordBits == 2
MaxRequests == 2
MaxGain == 2

UsizeModulus == 2 ^ WordBits
Usize == 0 .. (UsizeModulus - 1)

\* ------------------------------------------------------------ Option<usize>
None == << >>
Some(n) == << n >>
OptionUsize == {None} \cup {Some(n) : n \in Usize}

\* ------------------------------------------------------------------- f64
RECURSIVE GCD(_, _)
GCD(a, b) == IF b = 0 THEN a ELSE GCD(b, a % b)

NaN == [sgn |-> 1, num |-> 0, den |-> 0]

F64Norm(s, n, d) ==
    IF n = 0 /\ d = 0 THEN NaN
    ELSE IF d = 0 THEN [sgn |-> s, num |-> 1, den |-> 0]
    ELSE IF n = 0 THEN [sgn |-> s, num |-> 0, den |-> 1]
    ELSE LET g == GCD(n, d) IN [sgn |-> s, num |-> n \div g, den |-> d \div g]

IsNaN(x) == x.num = 0 /\ x.den = 0

\* an integer literal or an integer converted with `as f64`
F64Lit(n) == IF n < 0 THEN F64Norm(-1, n * n, 1) ELSE F64Norm(1, n * n, 1)

AsF64(n) == F64Lit(n)

F64Mul(x, y) ==
    IF IsNaN(x) \/ IsNaN(y) THEN NaN
    ELSE F64Norm(x.sgn * y.sgn, x.num * y.num, x.den * y.den)

F64Div(x, y) ==
    IF IsNaN(x) \/ IsNaN(y) THEN NaN
    ELSE F64Norm(x.sgn * y.sgn, x.num * y.den, x.den * y.num)

F64Neg(x) == IF IsNaN(x) THEN NaN ELSE [x EXCEPT !.sgn = -x.sgn]

Isqrt(n) == CHOOSE r \in 0 .. n : r * r = n

sqrt(x) ==
    IF IsNaN(x) THEN NaN
    ELSE IF x.sgn = -1 /\ x.num # 0 THEN NaN
    ELSE [sgn |-> x.sgn, num |-> Isqrt(x.num), den |-> Isqrt(x.den)]

\* --------------------------------------------------------------- the enum
Gains == {F64Lit(g) : g \in {-1, 0, MaxGain}}
Values == {F64Lit(0), F64Lit(5)}
Shapes == {<<3>>, <<2, 2>>}

Initializer ==
    {[tag |-> "Constant", value |-> v] : v \in Values}
    \cup {[tag |-> "Ones"], [tag |-> "Zeros"]}
    \cup {[tag |-> "Uniform", min |-> F64Lit(0), max |-> F64Lit(1)]}
    \cup {[tag |-> "Normal", mean |-> F64Lit(0), std |-> F64Lit(1)]}
    \cup {[tag |-> "KaimingUniform", gain |-> g, fan_out_only |-> b] :
             g \in Gains, b \in BOOLEAN}
    \cup {[tag |-> "KaimingNormal", gain |-> g, fan_out_only |-> b] :
             g \in Gains, b \in BOOLEAN}
    \cup {[tag |-> "XavierUniform", gain |-> g] : g \in Gains}
    \cup {[tag |-> "XavierNormal", gain |-> g] : g \in Gains}

\* ------------------------------------------------------------------ state
VARIABLES
    overflow_checks,  \* build profile: are integer overflow checks compiled in
    self,             \* the Initializer value the calls are made on
    args,             \* the arguments of the latest call
    outcome,          \* what the latest call did: a tensor request or a panic
    issued,           \* number of requests delegated to the backend so far
    rng               \* number of random requests drawn since the last seed

vars == <<overflow_checks, self, args, outcome, issued, rng>>

\* ----------------------------------------------------------------- panics
KaimingFanMsg ==
    <<"Can't", "use", "Kaiming", "initialization", "without", "specifying",
      "fan", "Use", "init_with", "method">>

XavierFanInMsg ==
    <<"Can't", "use", "Xavier", "initialization", "without", "specifying",
      "fan", "in", "Use", "init_with", "method", "and", "provide", "fan_in">>

XavierFanOutMsg ==
    <<"Can't", "use", "Xavier", "initialization", "without", "specifying",
      "fan", "out", "Use", "init_with", "method", "and", "provide", "fan_out">>

AddOverflowMsg == <<"attempt", "to", "add", "with", "overflow">>

Panic(m) == [kind |-> "panic", msg |-> m]
Value(v) == [kind |-> "value", val |-> v]
Returned(r) == [kind |-> "tensor", req |-> r]

\* ---------------------------------------------------------------- backend
Tensor_full(shape, value) == [op |-> "fill", shape |-> shape, value |-> value]
Tensor_ones(shape) == [op |-> "fill", shape |-> shape, value |-> F64Lit(1)]
Tensor_zeros(shape) == [op |-> "fill", shape |-> shape, value |-> F64Lit(0)]
Tensor_random(shape, distribution) ==
    [op |-> "random", shape |-> shape, distribution |-> distribution]

Distribution_Uniform(low, high) == [tag |-> "Uniform", low |-> low, high |-> high]
Distribution_Normal(mean, std) == [tag |-> "Normal", mean |-> mean, std |-> std]

\* the generator advances on a random request and on nothing else
RngAfter(r, req) == IF req.op = "random" THEN r + 1 ELSE r

\* ---------------------------------------------------------- draw helpers
uniform_draw(shape, low, high) ==
    Tensor_random(shape, Distribution_Uniform(low, high))

normal_draw(shape, mean, std) ==
    Tensor_random(shape, Distribution_Normal(mean, std))

\* --------------------------------------------------------- fan statistics
\* usize + usize: panics when overflow checks are compiled in, wraps otherwise
usize_add(a, b) ==
    IF a + b >= UsizeModulus /\ overflow_checks
    THEN Panic(AddOverflowMsg)
    ELSE Value((a + b) % UsizeModulus)

\* kaiming_std with the two branches of the fan selection exchanged
kaiming_std_swapped(fan_out_only, fan_in, fan_out) ==
    LET fan == IF fan_out_only THEN fan_in ELSE fan_out
    IN  IF fan = None THEN Panic(KaimingFanMsg)
        ELSE Value(F64Div(F64Lit(1), sqrt(AsF64(fan[1]))))

\* kaiming_std returning 1/fan, the variance, instead of 1/sqrt(fan)
kaiming_std_variance(fan_out_only, fan_in, fan_out) ==
    LET fan == IF fan_out_only THEN fan_out ELSE fan_in
    IN  IF fan = None THEN Panic(KaimingFanMsg)
        ELSE Value(F64Div(F64Lit(1), AsF64(fan[1])))

\* kaiming_std that adds the number of draws made so far to the fan
kaiming_std_stateful(fan_out_only, fan_in, fan_out) ==
    LET fan == IF fan_out_only THEN fan_out ELSE fan_in
    IN  IF fan = None THEN Panic(KaimingFanMsg)
        ELSE Value(F64Div(F64Lit(1), sqrt(AsF64(fan[1] + rng))))

kaiming_std(fan_out_only, fan_in, fan_out) ==
    LET fan == IF fan_out_only THEN fan_out ELSE fan_in
    IN  IF fan = None THEN Panic(KaimingFanMsg)
        ELSE Value(F64Div(F64Lit(1), sqrt(AsF64(fan[1]))))

xavier_std(fan_in, fan_out) ==
    IF fan_in = None THEN Panic(XavierFanInMsg)
    ELSE IF fan_out = None THEN Panic(XavierFanOutMsg)
    ELSE LET sum == usize_add(fan_in[1], fan_out[1])
         IN  IF sum.kind = "panic" THEN sum
             ELSE Value(sqrt(F64Div(F64Lit(2), AsF64(sum.val))))

\* ------------------------------------------------------------- init_with
init_with(slf, shape, fan_in, fan_out) ==
    CASE slf.tag = "Constant" -> Returned(Tensor_full(shape, slf.value))
      [] slf.tag = "Ones" -> Returned(Tensor_ones(shape))
      [] slf.tag = "Zeros" -> Returned(Tensor_zeros(shape))
      [] slf.tag = "Uniform" -> Returned(uniform_draw(shape, slf.min, slf.max))
      [] slf.tag = "Normal" -> Returned(normal_draw(shape, slf.mean, slf.std))
      [] slf.tag = "KaimingUniform" ->
            LET s == kaiming_std(slf.fan_out_only, fan_in, fan_out)
                a == F64Mul(F64Mul(sqrt(F64Lit(3)), slf.gain), s.val)
            IN  IF s.kind = "panic" THEN s
                ELSE Returned(uniform_draw(shape, F64Neg(a), a))
      [] slf.tag = "KaimingNormal" ->
            LET s == kaiming_std(slf.fan_out_only, fan_in, fan_out)
                std == F64Mul(slf.gain, s.val)
            IN  IF s.kind = "panic" THEN s
                ELSE Returned(normal_draw(shape, F64Lit(0), std))
      [] slf.tag = "XavierUniform" ->
            LET s == xavier_std(fan_in, fan_out)
                a == F64Mul(F64Mul(sqrt(F64Lit(3)), slf.gain), s.val)
            IN  IF s.kind = "panic" THEN s
                ELSE Returned(uniform_draw(shape, F64Neg(a), a))
      [] slf.tag = "XavierNormal" ->
            LET s == xavier_std(fan_in, fan_out)
                std == F64Mul(slf.gain, s.val)
            IN  IF s.kind = "panic" THEN s
                ELSE Returned(normal_draw(shape, F64Lit(0), std))

\* init that supplies a default fan of 1 instead of none
init_defaulting(slf, shape) == init_with(slf, shape, Some(1), Some(1))

init(slf, shape) == init_with(slf, shape, None, None)

\* ---------------------------------------------------------------- actions
NoCall == [entry |-> "none", shape |-> << >>, fan_in |-> None, fan_out |-> None]

Init ==
    /\ overflow_checks \in BOOLEAN
    /\ self \in Initializer
    /\ args = NoCall
    /\ outcome = [kind |-> "none"]
    /\ issued = 0
    /\ rng = 0

\* a call that draws the bounds of its distribution in two requests
Complete_DrawsTwice(out) ==
    /\ outcome' = out
    /\ issued' = IF out.kind = "tensor"
                 THEN (IF out.req.op = "random" THEN issued + 2 ELSE issued + 1)
                 ELSE issued
    /\ rng' = IF out.kind = "tensor"
              THEN RngAfter(RngAfter(rng, out.req), out.req)
              ELSE rng
    /\ UNCHANGED <<overflow_checks, self>>

\* a call that requests the draw before it computes the fan statistic
Complete_DrawsFirst(out) ==
    /\ outcome' = out
    /\ issued' = IF self.tag \in {"Constant", "Ones", "Zeros"} /\ out.kind # "tensor"
                 THEN issued ELSE issued + 1
    /\ rng' = IF self.tag \in {"Constant", "Ones", "Zeros"} THEN rng ELSE rng + 1
    /\ UNCHANGED <<overflow_checks, self>>

\* the effect of one call whose result is out
Complete(out) ==
    /\ outcome' = out
    /\ issued' = IF out.kind = "tensor" THEN issued + 1 ELSE issued
    /\ rng' = IF out.kind = "tensor" THEN RngAfter(rng, out.req) ELSE rng
    /\ UNCHANGED <<overflow_checks, self>>

InitCall ==
    /\ issued < MaxRequests
    /\ \E shape \in Shapes :
          /\ args' = [entry |-> "init", shape |-> shape,
                      fan_in |-> None, fan_out |-> None]
          /\ Complete(init(self, shape))

InitWithCall ==
    /\ issued < MaxRequests
    /\ \E shape \in Shapes, fan_in \in OptionUsize, fan_out \in OptionUsize :
          /\ args' = [entry |-> "init_with", shape |-> shape,
                      fan_in |-> fan_in, fan_out |-> fan_out]
          /\ Complete(init_with(self, shape, fan_in, fan_out))

\* Backend::seed: restart the generator
Seed ==
    /\ rng > 0
    /\ rng' = 0
    /\ UNCHANGED <<overflow_checks, self, args, outcome, issued>>

Next == InitCall \/ InitWithCall \/ Seed

Spec == Init /\ [][Next]_vars

\* ------------------------------------------------- vocabulary of the claims
Called == args.entry # "none"
IsKaiming == self.tag \in {"KaimingUniform", "KaimingNormal"}
IsXavier == self.tag \in {"XavierUniform", "XavierNormal"}
IsFill == self.tag \in {"Constant", "Ones", "Zeros"}
MissingFanMsgs == {KaimingFanMsg, XavierFanInMsg, XavierFanOutMsg}
MissingFanError == outcome.kind = "panic" /\ outcome.msg \in MissingFanMsgs
Succeeded == outcome.kind = "tensor"
SelectedFan == IF self.fan_out_only THEN args.fan_out ELSE args.fan_in
BothFans == args.fan_in # None /\ args.fan_out # None
RequiredFansPresent ==
    /\ IsKaiming => SelectedFan # None
    /\ IsXavier => BothFans

\* the word w, or the two words "fan" "in" / "fan" "out" it abbreviates
Names(msg, w) ==
    \E i \in 1 .. Len(msg) :
        \/ msg[i] = w
        \/ /\ i < Len(msg)
           /\ msg[i] = "fan"
           /\ <<msg[i + 1], w>> \in {<<"in", "fan_in">>, <<"out", "fan_out">>}

\* C1: a Kaiming variant fails with the missing-fan error exactly when the
\* selected fan (fan_out if fan_out_only, else fan_in) is absent, and
\* succeeds otherwise, whatever the other fan is.
C1_KaimingFailsIffSelectedFanAbsent ==
    (Called /\ IsKaiming) =>
        /\ MissingFanError <=> (SelectedFan = None)
        /\ (SelectedFan # None) => Succeeded
        /\ (SelectedFan = None) => outcome.kind = "panic"

C1_Witness ==
    /\ self.tag = "KaimingUniform" /\ self.fan_out_only
    /\ args.entry = "init_with"
    /\ args.fan_in = None /\ args.fan_out # None
    /\ Succeeded

\* C2: a Xavier variant fails with the missing-fan error exactly when fan_in
\* or fan_out is absent, and succeeds whenever both are present.
C2_XavierFailsIffAFanAbsent ==
    (Called /\ IsXavier) =>
        /\ MissingFanError <=> ~BothFans
        /\ BothFans => Succeeded

\* C3: init(shape) has the outcome of init_with(shape, None, None): the
\* variant's own request for Constant, Ones, Zeros, Uniform and Normal, the
\* missing-fan error for the Kaiming and Xavier variants.
C3_InitIsInitWithNoFans ==
    (args.entry = "init") =>
        /\ outcome = init_with(self, args.shape, None, None)
        /\ (IsKaiming \/ IsXavier) => MissingFanError
        /\ self.tag = "Constant" =>
              outcome = Returned([op |-> "fill", shape |-> args.shape,
                                  value |-> self.value])
        /\ self.tag = "Ones" =>
              outcome = Returned([op |-> "fill", shape |-> args.shape,
                                  value |-> F64Lit(1)])
        /\ self.tag = "Zeros" =>
              outcome = Returned([op |-> "fill", shape |-> args.shape,
                                  value |-> F64Lit(0)])
        /\ self.tag = "Uniform" =>
              outcome = Returned([op |-> "random", shape |-> args.shape,
                  distribution |-> [tag |-> "Uniform", low |-> self.min,
                                    high |-> self.max]])
        /\ self.tag = "Normal" =>
              outcome = Returned([op |-> "random", shape |-> args.shape,
                  distribution |-> [tag |-> "Normal", mean |-> self.mean,
                                    std |-> self.std]])

C3_Witness ==
    /\ args.entry = "init"
    /\ self.tag = "XavierNormal"
    /\ MissingFanError

\* C4: every missing-fan error names the fan that was required (fan_in or
\* fan_out) and points to init_with.
C4_ErrorNamesTheFan ==
    MissingFanError =>
        /\ Names(outcome.msg, "init_with")
        /\ \/ /\ Names(outcome.msg, "fan_in")
              /\ args.fan_in = None
              /\ IsXavier \/ ~self.fan_out_only
           \/ /\ Names(outcome.msg, "fan_out")
              /\ args.fan_out = None
              /\ IsXavier \/ self.fan_out_only

\* C5: with the selected fan present, KaimingUniform requests Uniform(-a, a)
\* with a = sqrt(3) * gain * (1/sqrt(fan)) and KaimingNormal requests
\* Normal(0, gain * (1/sqrt(fan))); nothing but gain and the selected fan
\* enters the request.
KaimingFormulaStd(fan) == F64Div(F64Lit(1), sqrt(F64Lit(fan)))

\* x * x = q * g * g / n, for a finite x and n > 0
SquareIs(x, q, g, n) == x.num * g.den * n = q * g.num * x.den

XavierFormulaStd(fan_in, fan_out) ==
    sqrt(F64Div(F64Lit(2), F64Lit(fan_in + fan_out)))

C6_XavierRequest ==
    (Called /\ IsXavier /\ BothFans) =>
        LET s == XavierFormulaStd(args.fan_in[1], args.fan_out[1])
            a == F64Mul(F64Mul(sqrt(F64Lit(3)), self.gain), s)
            std == F64Mul(self.gain, s)
        IN  /\ self.tag = "XavierUniform" =>
                  outcome = Returned([op |-> "random", shape |-> args.shape,
                      distribution |-> [tag |-> "Uniform",
                                        low |-> F64Neg(a), high |-> a]])
            /\ self.tag = "XavierNormal" =>
                  outcome = Returned([op |-> "random", shape |-> args.shape,
                      distribution |-> [tag |-> "Normal",
                                        mean |-> F64Lit(0), std |-> std]])

\* C7: when the fans the variant requires are present the call does not
\* panic, whatever the values of the fans: zero, or a sum beyond the word.
C7_NoOtherFailure ==
    (Called /\ RequiredFansPresent) => outcome.kind # "panic"

\* C8: a successful call issues exactly one backend request; for Constant,
\* Ones and Zeros it is a fill with value, 1 and 0 that leaves the generator
\* alone, for the other variants it is one random request, which advances it.
C8_Step ==
    (issued' # issued) =>
        /\ issued' = issued + 1
        /\ outcome'.kind = "tensor"
        /\ outcome'.req.shape = args'.shape
        /\ IsFill =>
              /\ outcome'.req.op = "fill"
              /\ rng' = rng
              /\ self.tag = "Constant" => outcome'.req.value = self.value
              /\ self.tag = "Ones" => outcome'.req.value = F64Lit(1)
              /\ self.tag = "Zeros" => outcome'.req.value = F64Lit(0)
        /\ ~IsFill =>
              /\ outcome'.req.op = "random"
              /\ rng' = rng + 1

C8_OneRequestPerCall == [][C8_Step]_vars

C8_Witness ==
    /\ self.tag = "Ones"
    /\ Succeeded
    /\ issued = MaxRequests
    /\ rng = 0

\* C9: a call never modifies the Initializer, and what a call does depends
\* only on the variant's fields and the call's arguments: repeating a call
\* repeats its outcome, whatever was issued or drawn in between.
C9_Step ==
    /\ self' = self
    /\ overflow_checks' = overflow_checks
    /\ (Called /\ args' = args) => outcome' = outcome

RequiredFanAbsent(a) ==
    \/ IsKaiming /\ (IF self.fan_out_only THEN a.fan_out ELSE a.fan_in) = None
    \/ IsXavier /\ (a.fan_in = None \/ a.fan_out = None)

C10_Step ==
    (args' # args \/ outcome' # outcome) =>
        /\ RequiredFanAbsent(args') =>
              /\ outcome'.kind = "panic"
              /\ outcome'.msg \in MissingFanMsgs
        /\ (outcome'.kind = "panic" /\ outcome'.msg \in MissingFanMsgs) =>
              /\ issued' = issued
              /\ rng' = rng
              /\ DOMAIN outcome' = {"kind", "msg"}

C10_FailsBeforeDelegation == [][C10_Step]_vars

C10_Witness ==
    /\ MissingFanError
    /\ issued = 1
    /\ rng = 1

TypeOK ==
    /\ overflow_checks \in BOOLEAN
    /\ self \in Initializer
    /\ issued \in 0 .. MaxRequests
    /\ rng \in 0 .. issued
    /\ outcome.kind \in {"none", "tensor", "panic"}
====
